---- MODULE Spec2Model ----
(***************************************************************************)
(* Model of the PPM image tool (src/ppmio.cpp) and of the PPM inspection   *)
(* reader (src/print_ppm.cpp).                                             *)
(*                                                                         *)
(* A file is a record [exists, data]; data is the sequence of its bytes    *)
(* (0..255).  A pixel is a record [r, g, b]; an image is a sequence of     *)
(* rows, each a sequence of pixels (std::vector<std::vector<RGB>>).        *)
(* Sequences are 1-based: C++ index k is TLA+ index k + 1.                 *)
(***************************************************************************)
EXTENDS Integers, Sequences, FiniteSets, TLC

VARIABLES
    argc,        \* main: number of command line words
    inFile,      \* the file at argv[1]
    outFile,     \* the file at argv[2]
    options,     \* main: the vector of option tokens argv[3..]
    idx,         \* main: number of options already processed by the loop
    image,       \* main: the pixel buffer
    pc,          \* main: "start", "options" (inside the loop) or "done"
                 \* ("idle" when the image tool is not the program run)
    exitStatus,  \* exit status of the process, -1 while it runs
    lFile,       \* print_ppm: the file at argv[1]
    lpc,         \* print_ppm: "start" or "done" ("idle" when not run)
    lResult,     \* print_ppm: what loadPPM returned ("none" before the call,
                 \* "true", "false", or "abort" for an uncaught exception)
    lImage,      \* print_ppm: image filled by loadPPM
    lWidth,      \* print_ppm: width as set by loadPPM
    lHeight,     \* print_ppm: height as set by loadPPM
    lFormat      \* print_ppm: format tag as set by loadPPM

vars == <<argc, inFile, outFile, options, idx, image, pc, exitStatus,
          lFile, lpc, lResult, lImage, lWidth, lHeight, lFormat>>

mainVars == <<argc, inFile, outFile, options, idx, image, pc, exitStatus>>
loadVars == <<lFile, lpc, lResult, lImage, lWidth, lHeight, lFormat>>

----------------------------------------------------------------------------
(* Bounds of the model *)

MaxH    == 3   \* largest height of an input image
MaxW    == 5   \* largest width of an input image
MaxOpts == 2   \* largest number of option tokens
MaxCut  == 1   \* largest number of bytes cut off the end of a truncated file

----------------------------------------------------------------------------
(* Bytes, text and files *)

Min(a, b) == IF a < b THEN a ELSE b
Max(a, b) == IF a > b THEN a ELSE b

\* std::isspace in the "C" locale: \t \n \v \f \r and space; EOF is no space
isspace(c) == c \in {9, 10, 11, 12, 13, 32}

isdigit(c) == c \in 48..57

NoFile == [exists |-> FALSE, data |-> << >>]
File(bytes) == [exists |-> TRUE, data |-> bytes]

\* operator<< of an int: its decimal digits
RECURSIVE Dec(_)
Dec(n) == IF n < 10 THEN <<48 + n>> ELSE Dec(n \div 10) \o <<48 + (n % 10)>>

\* first position q >= p of f that holds no whitespace (Len(f)+1 at the end)
RECURSIVE SkipWs(_, _)
SkipWs(f, p) ==
    IF p <= Len(f) /\ isspace(f[p]) THEN SkipWs(f, p + 1) ELSE p

\* first position q >= p of f that holds whitespace (Len(f)+1 at the end)
RECURSIVE TokenEnd(_, _)
TokenEnd(f, p) ==
    IF p <= Len(f) /\ ~isspace(f[p]) THEN TokenEnd(f, p + 1) ELSE p

\* operator>> of a std::string at position p: skips whitespace, takes the
\* characters up to the next whitespace; fails when none is left
ReadToken(f, p) ==
    LET s == SkipWs(f, p)
        e == TokenEnd(f, s)
    IN  [ok |-> s <= Len(f), str |-> SubSeq(f, s, e - 1), pos |-> e]

\* first position q >= p of f that holds a newline (Len(f)+1 at the end)
RECURSIVE LineEnd(_, _)
LineEnd(f, p) ==
    IF p <= Len(f) /\ f[p] # 10 THEN LineEnd(f, p + 1) ELSE p

\* std::getline at position p: fails when nothing is left, else yields the
\* characters before the next newline and consumes the newline
getline(f, p) ==
    LET q == LineEnd(f, p)
    IN  [ok   |-> p <= Len(f),
         line |-> SubSeq(f, p, q - 1),
         pos  |-> IF q <= Len(f) THEN q + 1 ELSE q]

RECURSIVE DigitsEnd(_, _)
DigitsEnd(s, p) ==
    IF p <= Len(s) /\ isdigit(s[p]) THEN DigitsEnd(s, p + 1) ELSE p

RECURSIVE DigitsValue(_, _, _, _)
DigitsValue(s, p, e, acc) ==
    IF p >= e THEN acc ELSE DigitsValue(s, p + 1, e, 10 * acc + (s[p] - 48))

\* operator>> of an int at position p (values within the range of int):
\* skips whitespace, takes an optional sign and the digits that follow;
\* fails when there is no digit
ParseInt(s, p) ==
    LET a    == SkipWs(s, p)
        sgn  == a <= Len(s) /\ s[a] \in {43, 45}
        d    == IF sgn THEN a + 1 ELSE a
        e    == DigitsEnd(s, d)
        v    == DigitsValue(s, d, e, 0)
    IN  [ok  |-> e > d,
         val |-> IF sgn /\ s[a] = 45 THEN 0 - v ELSE v,
         pos |-> e]

----------------------------------------------------------------------------
(* Codec: readPPM and writePPM *)

Pixel(r, g, b) == [r |-> r, g |-> g, b |-> b]

Height(img) == Len(img)
Width(img)  == IF Len(img) > 0 THEN Len(img[1]) ELSE 0

ReadError(what) == [ok |-> FALSE, err |-> what, image |-> << >>]

\* the loop that reads width and height, skipping comments and empty lines
RECURSIVE readDims(_, _)
readDims(f, p) ==
    LET gl == getline(f, p)
        w  == ParseInt(gl.line, 1)
        h  == ParseInt(gl.line, w.pos)
    IN  IF ~gl.ok
        THEN [ok |-> FALSE, width |-> 0, height |-> 0, pos |-> p]
        ELSE IF gl.line = << >> \/ gl.line[1] = 35
        THEN readDims(f, gl.pos)
        ELSE IF w.ok /\ h.ok
        THEN [ok |-> TRUE, width |-> w.val, height |-> h.val, pos |-> gl.pos]
        ELSE readDims(f, gl.pos)

\* the loop that reads the max color value
RECURSIVE readMax(_, _)
readMax(f, p) ==
    LET gl == getline(f, p)
        m  == ParseInt(gl.line, 1)
    IN  IF ~gl.ok
        THEN [ok |-> FALSE, val |-> 0, pos |-> p]
        ELSE IF gl.line = << >> \/ gl.line[1] = 35
        THEN readMax(f, gl.pos)
        ELSE IF m.ok
        THEN [ok |-> TRUE, val |-> m.val, pos |-> gl.pos]
        ELSE readMax(f, gl.pos)

\* a faulty variant of readRow: a short row is accepted, the missing bytes left 0
readRowFill(f, p, width) ==
    LET byte(k) == IF k <= Len(f) THEN f[k] ELSE 0
    IN  [ok  |-> TRUE,
         row |-> [j \in 1..width |->
                    Pixel(byte(p + 3 * (j - 1)), byte(p + 3 * (j - 1) + 1),
                          byte(p + 3 * (j - 1) + 2))]]

\* file.read of one row of width * 3 bytes at position p and the gcount test
readRow(f, p, width) ==
    LET gcount == Min(width * 3, Max(Len(f) - p + 1, 0))
    IN  IF gcount # width * 3
        THEN [ok |-> FALSE, row |-> << >>]
        ELSE [ok  |-> TRUE,
              row |-> [j \in 1..width |->
                         Pixel(f[p + 3 * (j - 1)], f[p + 3 * (j - 1) + 1],
                               f[p + 3 * (j - 1) + 2])]]

\* the loop over the rows: rows i..height are read from position p on
RECURSIVE readRows(_, _, _, _, _, _)
readRows(f, p, i, height, width, acc) ==
    IF i > height
    THEN [ok |-> TRUE, err |-> "", image |-> acc]
    ELSE LET rd == readRow(f, p, width)
         IN  IF ~rd.ok
             THEN ReadError("Error reading pixel data at row")
             ELSE readRows(f, p + width * 3, i + 1, height, width,
                           Append(acc, rd.row))

readPPM(file) ==
    LET f     == file.data
        magic == ReadToken(f, 1)
        dims  == readDims(f, magic.pos)
        mx    == readMax(f, dims.pos)
        start == SkipWs(f, mx.pos)   \* while (isspace(peek())) get();
    IN  IF ~file.exists THEN ReadError("Cannot open file")
        ELSE IF magic.str # <<80, 54>> THEN ReadError("Invalid PPM format")
        ELSE IF ~dims.ok THEN ReadError("Error reading PPM header.")
        ELSE IF ~mx.ok THEN ReadError("Error reading max color value.")
        ELSE IF mx.val # 255 THEN ReadError("Unsupported max value")
        \* a negative size makes the vector constructor throw length_error
        ELSE IF dims.height < 0 \/ dims.width < 0 THEN ReadError("vector")
        ELSE readRows(f, start, 1, dims.height, dims.width, << >>)

\* the bytes of the first width pixels of a row
RECURSIVE rowBytes(_, _, _)
rowBytes(row, j, width) ==
    IF j > width THEN << >>
    ELSE <<row[j].r, row[j].g, row[j].b>> \o rowBytes(row, j + 1, width)

RECURSIVE pixelBytes(_, _, _)
pixelBytes(img, i, width) ==
    IF i > Len(img) THEN << >>
    ELSE rowBytes(img[i], 1, width) \o pixelBytes(img, i + 1, width)

\* "P6\n" << width << " " << height << "\n255\n"
ppmHeader(width, height) ==
    <<80, 54, 10>> \o Dec(width) \o <<32>> \o Dec(height) \o <<10, 50, 53, 53, 10>>

\* writePPM on a path that can be opened for writing: the file it leaves at
\* the path and whether it returned (ok) or threw.  The ofstream is opened,
\* which creates or truncates the file, before the buffer is looked at.
writePPM(img) ==
    LET height == Height(img)
        width  == Width(img)
        bytes  == ppmHeader(width, height) \o pixelBytes(img, 1, width)
    IN  IF width = 0 \/ height = 0
        THEN [ok |-> FALSE, err |-> "Empty image data.", file |-> File(<< >>)]
        ELSE IF Len(bytes) < (width * height * 3) + 10
        THEN [ok |-> FALSE, err |-> "File size mismatch", file |-> File(bytes)]
        ELSE [ok |-> TRUE, err |-> "", file |-> File(bytes)]

----------------------------------------------------------------------------
(* Transforms *)

grayscalePixel(p) ==
    LET gray == ((p.r + p.g + p.b) \div 3) % 256
    IN  Pixel(gray, gray, gray)

grayscale(img) ==
    [i \in 1..Len(img) |-> [j \in 1..Len(img[i]) |-> grayscalePixel(img[i][j])]]

invertPixel(p) == Pixel(255 - p.r, 255 - p.g, 255 - p.b)

invert(img) ==
    [i \in 1..Len(img) |-> [j \in 1..Len(img[i]) |-> invertPixel(img[i][j])]]

(* contrast computes (v - 128) * factor + 128 in IEEE single precision.    *)
(* A float is modelled as an integer count of units of 2^-22; 1.2f is      *)
(* exactly 5033165 * 2^-22.                                                *)
Abs(n) == IF n < 0 THEN 0 - n ELSE n
Sign(n) == IF n < 0 THEN 0 - 1 ELSE 1

RECURSIVE Pow2(_)
Pow2(n) == IF n = 0 THEN 1 ELSE 2 * Pow2(n - 1)

\* least s with n \div 2^s < 2^24
RECURSIVE Shift24(_, _)
Shift24(n, s) == IF n \div Pow2(s) < Pow2(24) THEN s ELSE Shift24(n, s + 1)

\* n >= 0 rounded to 24 significant bits, ties to even
RoundF(n) ==
    LET s == Shift24(n, 0)
        q == n \div Pow2(s)
        r == n % Pow2(s)
        up == s > 0 /\ (2 * r > Pow2(s) \/ (2 * r = Pow2(s) /\ q % 2 = 1))
    IN  (IF up THEN q + 1 ELSE q) * Pow2(s)

contrastChannel(v) ==
    LET k    == v - 128
        prod == Sign(k) * RoundF(Abs(k) * 5033165)      \* k * 1.2f
        sum0 == prod + 128 * Pow2(22)
        sum  == Sign(sum0) * RoundF(Abs(sum0))          \* ... + 128
        int  == Sign(sum) * (Abs(sum) \div Pow2(22))    \* static_cast<int>
    IN  Min(255, Max(0, int))

contrastPixel(p) ==
    Pixel(contrastChannel(p.r), contrastChannel(p.g), contrastChannel(p.b))

contrast(img) ==
    [i \in 1..Len(img) |-> [j \in 1..Len(img[i]) |-> contrastPixel(img[i][j])]]

\* sum of channel c over the 3x3 neighbourhood of (i, j) in t
Sum9(t, i, j, c) ==
    LET ch(p) == IF c = "r" THEN p.r ELSE IF c = "g" THEN p.g ELSE p.b
        row(x) == ch(t[i + x][j - 1]) + ch(t[i + x][j]) + ch(t[i + x][j + 1])
    IN  row(0 - 1) + row(0) + row(1)

BoxAverage(t, i, j) ==
    Pixel(Sum9(t, i, j, "r") \div 9, Sum9(t, i, j, "g") \div 9,
          Sum9(t, i, j, "b") \div 9)

\* the two loops of blur from interior cell (i, j) on, in row-major order:
\* img is the buffer being written, temp the copy taken at the start
RECURSIVE blurLoop(_, _, _, _)
blurLoop(img, temp, i, j) ==
    IF i > Len(img) - 1 THEN img
    ELSE IF j > Len(img[1]) - 1 THEN blurLoop(img, temp, i + 1, 2)
    ELSE blurLoop([img EXCEPT ![i][j] = BoxAverage(temp, i, j)], temp, i, j + 1)

\* the same loops without the copy: each average reads the buffer as it is
RECURSIVE blurLoopInPlace(_, _, _)
blurLoopInPlace(img, i, j) ==
    IF i > Len(img) - 1 THEN img
    ELSE IF j > Len(img[1]) - 1 THEN blurLoopInPlace(img, i + 1, 2)
    ELSE blurLoopInPlace([img EXCEPT ![i][j] = BoxAverage(img, i, j)], i, j + 1)

\* a faulty variant of blur: no snapshot of the buffer is taken
blurInPlace(img) == blurLoopInPlace(img, 2, 2)

\* a faulty variant of blur: the buffer is replaced by the averaged interior
blurCrop(img) ==
    [i \in 1..(Len(img) - 2) |->
        [j \in 1..(Len(img[1]) - 2) |-> BoxAverage(img, i + 1, j + 1)]]

\* blur of a buffer with at least one row (image[0] exists)
blur(img) == blurLoop(img, img, 2, 2)

Reverse(row) == [j \in 1..Len(row) |-> row[Len(row) + 1 - j]]

\* std::reverse of every row
mirror(img) == [i \in 1..Len(img) |-> Reverse(img[i])]

\* the C++ column indices j of image[0][j] and image[i][j] that mirror
\* touches in a buffer of the given width: the two printing loops before
\* and after the reversal (j < min(5, width) and width - 5 <= j < width)
\* and the reversal itself
mirrorColumns(width) ==
    (0..(Min(5, width) - 1)) \cup ((width - 5)..(width - 1)) \cup (0..(width - 1))

\* a faulty variant of compress: the even rows and columns are kept
compressEven(img) ==
    LET new_height == Len(img) \div 2
        new_width  == Len(img[1]) \div 2
    IN  [i \in 1..new_height |-> [j \in 1..new_width |-> img[2 * i - 1][2 * j - 1]]]

\* compress of a buffer with at least one row: C++ cell (2i+1, 2j+1) of the
\* input is cell (2(i+1), 2(j+1)) here
compress(img) ==
    LET new_height == Len(img) \div 2
        new_width  == Len(img[1]) \div 2
    IN  [i \in 1..new_height |-> [j \in 1..new_width |-> img[2 * i][2 * j]]]

----------------------------------------------------------------------------
(* Inputs of the image tool *)

\* first red bytes of the input images: an ordinary byte, and a byte that
\* invert turns into a newline
Seeds == {77, 245}

\* an h x w image whose first red byte is s
TestImage(s, h, w) ==
    [i \in 1..h |-> [j \in 1..w |->
        Pixel((s + 97 * (i - 1) * i + 61 * (j - 1) * j * j) % 256,
              (3 * s + 50 * i * j + 9 * j) % 256,
              (s * i + 201 * j * j + 32 * (i - 1)) % 256)]]

\* the images of every size, and two whose first red byte is a newline
InputImages ==
    {TestImage(s, h, w) : s \in Seeds, h \in 1..MaxH, w \in 1..MaxW}
        \cup {TestImage(10, 1, 1), TestImage(10, 2, 2)}

\* a P6 file as the format defines it: header, one separator, the pixels
EncodeP6(img) ==
    ppmHeader(Width(img), Height(img)) \o pixelBytes(img, 1, Width(img))

\* the same with comment lines and an empty line in the header
EncodeP6Comment(img) ==
    <<80, 54, 10, 35, 32, 99, 10, 10>> \o Dec(Width(img)) \o <<32>>
        \o Dec(Height(img)) \o <<10, 35, 100, 10, 50, 53, 53, 10>>
        \o pixelBytes(img, 1, Width(img))

DropLast(bytes, t) == SubSeq(bytes, 1, Len(bytes) - t)

WellFormedFiles ==
    {File(EncodeP6(img)) : img \in InputImages}
        \cup {File(EncodeP6Comment(TestImage(77, 1, 2)))}

\* a valid header (max value 255, width and height >= 1) followed by a pixel
\* section that is 1..MaxCut bytes short
TruncatedFiles ==
    {File(DropLast(EncodeP6(TestImage(77, h, w)), t)) :
        h \in 1..MaxH, w \in 1..MaxW, t \in 1..MaxCut}
        \cup {File(DropLast(EncodeP6(TestImage(10, 2, 2)), 1))}

BadHeaderFiles ==
    { NoFile,
      File(<< >>),
      File(<<80, 53, 10, 49, 32, 49, 10, 50, 53, 53, 10, 1, 2, 3>>),   \* P5
      File(<<80, 54, 10>>),                                            \* header ends
      File(<<80, 54, 10, 49, 32, 49, 10>>),                            \* no max value
      File(<<80, 54, 10, 97, 32, 98, 10, 50, 53, 53, 10, 1, 2, 3>>),   \* "a b"
      File(<<80, 54, 10, 49, 32, 49, 10, 50, 53, 52, 10, 1, 2, 3>>),   \* 254
      File(<<80, 54, 10, 45, 49, 32, 49, 10, 50, 53, 53, 10, 1, 2, 3>>) \* "-1 1"
    }

InputFiles == WellFormedFiles \cup TruncatedFiles \cup BadHeaderFiles

Tokens == {"-g", "-i", "-x", "-b", "-m", "-c", "-z"}
KnownTokens == {"-g", "-i", "-x", "-b", "-m", "-c"}

OptionLists == UNION {[1..n -> Tokens] : n \in 0..MaxOpts}

\* what is at the output path before the run: nothing, or an older file
OldFile == File(<<111, 108, 100>>)

----------------------------------------------------------------------------
(* The image tool: main of src/ppmio.cpp *)

LoadIdle ==
    /\ lFile = NoFile /\ lpc = "idle" /\ lResult = "none" /\ lImage = << >>
    /\ lWidth = 0 /\ lHeight = 0 /\ lFormat = << >>

Init ==
    /\ \/ /\ argc \in {1, 2}
          /\ options = << >>
          /\ inFile = NoFile
          /\ outFile = NoFile
       \/ /\ options \in OptionLists
          /\ argc = 3 + Len(options)
          /\ inFile \in InputFiles
          /\ outFile \in {NoFile, OldFile}
    /\ idx = 0
    /\ image = << >>
    /\ pc = "start"
    /\ exitStatus = 0 - 1
    /\ LoadIdle

Exit(status) ==
    /\ pc' = "done"
    /\ exitStatus' = status

\* return 1 of the argc < 3 test
Usage ==
    /\ pc = "start"
    /\ argc < 3
    /\ Exit(1)
    /\ UNCHANGED <<argc, inFile, outFile, options, idx, image, loadVars>>

\* auto image = readPPM(inputFile); an exception ends main with status 1
ReadInput ==
    /\ pc = "start"
    /\ argc >= 3
    /\ LET rd == readPPM(inFile)
       IN  IF rd.ok
           THEN /\ image' = rd.image
                /\ pc' = "options"
                /\ UNCHANGED exitStatus
           ELSE /\ Exit(1)
                /\ UNCHANGED image
    /\ UNCHANGED <<argc, inFile, outFile, options, idx, loadVars>>

\* the loop is at option tok
AtOption(tok) ==
    /\ pc = "options"
    /\ idx < Len(options)
    /\ options[idx + 1] = tok

\* the transform returned: the buffer is replaced and the loop goes on
Applied(img) ==
    /\ image' = img
    /\ idx' = idx + 1
    /\ UNCHANGED <<argc, inFile, outFile, options, pc, exitStatus, loadVars>>

\* undefined behaviour that ends the process by a signal (SIGABRT, SIGSEGV)
Crash ==
    /\ pc' = "done"
    /\ exitStatus' \in {134, 139}
    /\ UNCHANGED <<argc, inFile, outFile, options, idx, image, loadVars>>

\* an exception reached the catch clause of main
Thrown ==
    /\ Exit(1)
    /\ UNCHANGED <<argc, inFile, outFile, options, idx, image, loadVars>>

Grayscale ==
    /\ AtOption("-g")
    /\ Applied(grayscale(image))

Invert ==
    /\ AtOption("-i")
    /\ Applied(invert(image))

Contrast ==
    /\ AtOption("-x")
    /\ Applied(contrast(image))

\* image[0].size() of a buffer without rows is undefined: the process
\* crashes, or it reads some width and, height being 0, changes nothing
Blur ==
    /\ AtOption("-b")
    /\ IF Len(image) = 0
       THEN Crash \/ Applied(image)
       ELSE Applied(blur(image))

\* mirror has undefined behaviour when the buffer has no row or when it
\* prints image[0][j] for a j outside the row: the process crashes, or it
\* prints what it found there and goes on
MirrorDefined(img) ==
    /\ Len(img) > 0
    /\ mirrorColumns(Width(img)) \subseteq 0..(Width(img) - 1)

Mirror ==
    /\ AtOption("-m")
    /\ IF MirrorDefined(image)
       THEN Applied(mirror(image))
       ELSE Crash \/ Applied(mirror(image))

\* image[0].size() of a buffer without rows is undefined: the process
\* crashes, or it reads some width and the allocation of a row of that width
\* throws, or it builds a buffer of 0 rows
Compress ==
    /\ AtOption("-c")
    /\ IF Len(image) = 0
       THEN Crash \/ Thrown \/ Applied(<< >>)
       ELSE Applied(compress(image))

\* the else branch: "Unknown option", return 1
UnknownOption ==
    /\ pc = "options"
    /\ idx < Len(options)
    /\ options[idx + 1] \notin KnownTokens
    /\ Exit(1)
    /\ UNCHANGED <<argc, inFile, outFile, options, idx, image, loadVars>>

\* writePPM(outputFile, image) after the loop
WriteOutput ==
    /\ pc = "options"
    /\ idx = Len(options)
    /\ LET wr == writePPM(image)
       IN  /\ outFile' = wr.file
           /\ Exit(IF wr.ok THEN 0 ELSE 1)
    /\ UNCHANGED <<argc, inFile, options, idx, image, loadVars>>

Next ==
    \/ Usage
    \/ ReadInput
    \/ Grayscale
    \/ Invert
    \/ Contrast
    \/ Blur
    \/ Mirror
    \/ Compress
    \/ UnknownOption
    \/ WriteOutput

Spec == Init /\ [][Next]_vars

----------------------------------------------------------------------------
(* The inspection reader: loadPPM and main of src/print_ppm.cpp *)

\* values an uninitialised int or byte may be found to hold
GarbageInts  == {0 - 1, 0, 2}
GarbageBytes == {0, 33}

\* the state of the ifstream: the read position and the fail bit
Stream(pos, fail) == [pos |-> pos, fail |-> fail]

\* file >> n for an int n holding old: nothing is done on a failed stream or
\* when only whitespace is left (n keeps old); when no number is found n is
\* set to 0; either way the stream fails
StreamInt(f, st, old) ==
    LET s  == SkipWs(f, st.pos)
        pi == ParseInt(f, s)
    IN  IF st.fail \/ s > Len(f)
        THEN [val |-> old, st |-> Stream(st.pos, TRUE)]
        ELSE IF ~pi.ok
        THEN [val |-> 0, st |-> Stream(s, TRUE)]
        ELSE [val |-> pi.val, st |-> Stream(pi.pos, FALSE)]

\* file.ignore(): one character is skipped unless the stream has failed
StreamIgnore(f, st) ==
    IF st.fail THEN st ELSE Stream(Min(st.pos + 1, Len(f) + 1), FALSE)

\* file >> r >> g >> b into a pixel that was value-initialised to 0
PlainPixel(f, st) ==
    LET r == StreamInt(f, st, 0)
        g == StreamInt(f, r.st, 0)
        b == StreamInt(f, g.st, 0)
    IN  [pixel |-> Pixel(r.val, g.val, b.val), st |-> b.st]

\* file.read(rgb, 3) into an uninitialised array: the bytes that are not
\* read keep what the array held (garbage)
RawPixel(f, st, garbage) ==
    LET avail   == IF st.fail THEN 0 ELSE Min(3, Max(Len(f) - st.pos + 1, 0))
        byte(k) == IF k < avail THEN f[st.pos + k] ELSE garbage
    IN  [pixel |-> Pixel(byte(0), byte(1), byte(2)),
         st    |-> Stream(st.pos + avail, st.fail \/ avail < 3)]

\* the pixel loops: pixels n..total in row-major order
RECURSIVE loadPixels(_, _, _, _, _, _, _)
loadPixels(f, st, n, total, plain, garbage, acc) ==
    IF n > total THEN acc
    ELSE LET px == IF plain THEN PlainPixel(f, st) ELSE RawPixel(f, st, garbage)
         IN  loadPixels(f, px.st, n + 1, total, plain, garbage,
                        Append(acc, px.pixel))

\* loadPPM called with image empty and width, height holding width0, height0.
\* ret is "false" or "true", or "abort" when image.resize throws (a negative
\* size), which nothing catches.
loadPPM(file, width0, height0, garbage) ==
    LET f      == file.data
        fmt    == ReadToken(f, 1)
        w      == StreamInt(f, Stream(fmt.pos, FALSE), width0)
        h      == StreamInt(f, w.st, height0)
        maxVal == StreamInt(f, h.st, 0)
        st     == StreamIgnore(f, maxVal.st)
        flat   == loadPixels(f, st, 1, h.val * w.val, fmt.str = <<80, 51>>,
                             garbage, << >>)
        out(ret, img, wd, ht, fm) ==
            [ret |-> ret, image |-> img, width |-> wd, height |-> ht, format |-> fm]
    IN  IF ~file.exists
        THEN out("false", << >>, width0, height0, << >>)
        ELSE IF fmt.str # <<80, 51>> /\ fmt.str # <<80, 54>>
        THEN out("false", << >>, width0, height0, fmt.str)
        ELSE IF h.val < 0 \/ w.val < 0
        THEN out("abort", << >>, w.val, h.val, fmt.str)
        ELSE out("true",
                 [i \in 1..h.val |-> [j \in 1..w.val |-> flat[(i - 1) * w.val + j]]],
                 w.val, h.val, fmt.str)

\* a plain-text (P3) file: "P3\n<w> <h>\n255\n" and the channels in decimal
RECURSIVE plainBytes(_, _)
plainBytes(bytes, k) ==
    IF k > Len(bytes) THEN << >>
    ELSE Dec(bytes[k]) \o <<IF k % 3 = 0 THEN 10 ELSE 32>> \o plainBytes(bytes, k + 1)

EncodeP3(img) ==
    <<80, 51, 10>> \o Dec(Width(img)) \o <<32>> \o Dec(Height(img))
        \o <<10, 50, 53, 53, 10>> \o plainBytes(pixelBytes(img, 1, Width(img)), 1)

LoadImages == {TestImage(s, h, w) : s \in {10, 77}, h \in 1..MaxH, w \in 1..MaxW}

\* the valid P6 and P3 files
ValidLoadFiles ==
    {File(EncodeP6(img)) : img \in LoadImages}
        \cup {File(EncodeP3(img)) : img \in LoadImages}

\* files that are not valid: pixel data that ends early, header fields that
\* are missing or not numbers, another magic token, no file
InvalidLoadFiles ==
    {File(DropLast(EncodeP6(img), t)) : img \in LoadImages, t \in 1..MaxCut}
        \cup {File(DropLast(EncodeP3(img), 4 * t)) : img \in LoadImages, t \in 1..MaxCut}
        \cup { NoFile,
               File(<< >>),
               File(<<80, 53, 10, 49, 32, 49, 10, 50, 53, 53, 10, 1, 2, 3>>),
               File(<<80, 54>>),
               File(<<80, 54, 10>>),
               File(<<80, 54, 10, 49>>),
               File(<<80, 54, 10, 97, 98, 99>>),
               File(<<80, 51, 10, 49, 32, 120, 10, 50, 53, 53, 10, 49, 32, 50, 32, 51, 10>>),
               File(<<80, 54, 10, 49, 32, 49, 10, 120, 10, 1, 2, 3>>) }

MainIdle ==
    /\ argc = 0 /\ inFile = NoFile /\ outFile = NoFile /\ options = << >>
    /\ idx = 0 /\ image = << >> /\ pc = "idle" /\ exitStatus = 0 - 1

\* main before the call: image is empty, width and height are uninitialised
LoadInit ==
    /\ lFile \in ValidLoadFiles \cup InvalidLoadFiles
    /\ lpc = "start"
    /\ lResult = "none"
    /\ lImage = << >>
    /\ lWidth \in GarbageInts
    /\ lHeight \in GarbageInts
    /\ lFormat = << >>
    /\ MainIdle

\* if (loadPPM(ppmFile, image, width, height, format)) ... else ...
LoadFile ==
    /\ lpc = "start"
    /\ \E garbage \in GarbageBytes :
          LET ld == loadPPM(lFile, lWidth, lHeight, garbage)
          IN  /\ lResult' = ld.ret
              /\ lImage' = ld.image
              /\ lWidth' = ld.width
              /\ lHeight' = ld.height
              /\ lFormat' = ld.format
    /\ lpc' = "done"
    /\ UNCHANGED <<lFile, mainVars>>

LoadNext == LoadFile

LoadSpec == LoadInit /\ [][LoadNext]_vars

----------------------------------------------------------------------------
(* Properties *)

IsEmpty(img) == Height(img) = 0 \/ Width(img) = 0

HasUnknown(opts) == \E k \in 1..Len(opts) : opts[k] \notin KnownTokens

Rectangular(img) == \A i \in 1..Len(img) : Len(img[i]) = Width(img)

\* the loop is at one of the transforms that keep the shape
AtShapeKeeping ==
    \E tok \in {"-g", "-i", "-x", "-b", "-m"} : AtOption(tok)

Channel(p, c) == IF c = "r" THEN p.r ELSE IF c = "g" THEN p.g ELSE p.b

\* sum of channel c of img over the set S of cells
RECURSIVE SumChannel(_, _, _)
SumChannel(img, S, c) ==
    IF S = {} THEN 0
    ELSE LET x == CHOOSE y \in S : TRUE
         IN  Channel(img[x[1]][x[2]], c) + SumChannel(img, S \ {x}, c)

\* the 3x3 neighbourhood of cell (i, j)
Around(i, j) == ((i - 1)..(i + 1)) \X ((j - 1)..(j + 1))

Interior(img, i, j) ==
    /\ 1 < i /\ i < Height(img)
    /\ 1 < j /\ j < Width(img)

\* floor(S / 9) per channel, S summed over the neighbourhood in img
FloorAverage(img, i, j) ==
    Pixel(SumChannel(img, Around(i, j), "r") \div 9,
          SumChannel(img, Around(i, j), "g") \div 9,
          SumChannel(img, Around(i, j), "b") \div 9)

\* the C++ cells (row, column) of the input that compress reads for an
\* input of h rows and w columns
compressReads(h, w) ==
    {<<2 * i + 1, 2 * j + 1>> : i \in 0..((h \div 2) - 1), j \in 0..((w \div 2) - 1)}

(* C1: a file written by writePPM is read back by readPPM as the buffer    *)
(* that was written, whatever its bytes: after a run that ended with       *)
(* status 0, decoding the output file yields the buffer of the run.        *)
C1_RoundTrip ==
    (pc = "done" /\ exitStatus = 0) =>
        /\ readPPM(outFile).ok
        /\ readPPM(outFile).image = image

C2_Step ==
    (pc = "options" /\ idx = Len(options) /\ IsEmpty(image)) =>
        (outFile' = outFile /\ pc' = "done" /\ exitStatus' = 1)

(* C2: writePPM called with a buffer of width 0 or height 0 fails and      *)
(* leaves the output path as it was: no file is created or truncated.      *)
C2_EmptyWriteLeavesFile == [][C2_Step]_vars

C3_Step ==
    HasUnknown(options) =>
        (outFile' = outFile /\ (pc' = "done" => exitStatus' = 1))

(* C3: with an option list that holds an unknown token, no step of the run *)
(* changes the output file and the run ends with exit status 1.            *)
C3_UnknownOptionAborts == [][C3_Step]_vars

C4_Step ==
    (pc = "options" /\ IsEmpty(image)) =>
        (pc' = "done" /\ image' = image /\ outFile' = outFile)

(* C4: an empty buffer in the option loop is terminal: the next step ends  *)
(* the run, applies no transform and writes no file.                       *)
C4_EmptyIsTerminal == [][C4_Step]_vars

C6_Step ==
    inFile \in TruncatedFiles =>
        /\ pc = "start" /\ pc' = "done" /\ exitStatus' = 1
        /\ image' = << >> /\ idx' = 0 /\ outFile' = outFile

(* C6: on a file with a valid header and a pixel section that is too       *)
(* short, the only step of the run is the failed read: it ends the run     *)
(* with status 1, returns no buffer, applies no transform and leaves the   *)
(* output file alone.                                                      *)
C6_TruncatedFails == [][C6_Step]_vars

\* the run on a 2x2 file that is one byte short, with options given, is over
C6_Witness ==
    /\ inFile = File(DropLast(EncodeP6(TestImage(77, 2, 2)), 1))
    /\ Len(options) > 0
    /\ pc = "done"
    /\ exitStatus = 1

C7_Step ==
    (AtOption("-c") /\ Height(image) >= 1 /\ Width(image) >= 1) =>
        /\ idx' = idx + 1
        /\ Len(image') = Height(image) \div 2
        /\ \A i \in 1..Len(image') :
              /\ Len(image'[i]) = Width(image) \div 2
              /\ \A j \in 1..Len(image'[i]) : image'[i][j] = image[2 * i][2 * j]
        /\ compressReads(Height(image), Width(image))
              \subseteq (0..(Height(image) - 1)) \X (0..(Width(image) - 1))

(* C7: compress of a buffer of h >= 1 rows and w >= 1 columns yields       *)
(* floor(h/2) rows of floor(w/2) columns, cell (i, j) of the result being  *)
(* cell (2i+1, 2j+1) of the input, and reads only cells of the input.      *)
C7_Compress == [][C7_Step]_vars

\* a 3x5 input (odd height and width) has been compressed to 1x2
C7_Witness ==
    /\ inFile = File(EncodeP6(TestImage(77, 3, 5)))
    /\ Len(options) > 0
    /\ options[1] = "-c"
    /\ idx = 1
    /\ Height(image) = 1
    /\ Width(image) = 2

C8_Step ==
    (AtOption("-b") /\ Height(image) >= 1 /\ Width(image) >= 1) =>
        /\ idx' = idx + 1
        /\ Len(image') = Len(image)
        /\ \A i \in 1..Len(image) :
              /\ Len(image'[i]) = Len(image[i])
              /\ \A j \in 1..Len(image[i]) :
                    image'[i][j] = IF Interior(image, i, j)
                                   THEN FloorAverage(image, i, j)
                                   ELSE image[i][j]

(* C8: blur of a buffer of h >= 1 rows and w >= 1 columns keeps the shape  *)
(* and every border cell, and sets every interior cell to the floor of the *)
(* average of its 3x3 neighbourhood in the buffer as it was before.        *)
C8_Blur == [][C8_Step]_vars

\* a 3x4 input, which has two adjacent interior cells, has been blurred
C8_Witness ==
    /\ inFile = File(EncodeP6(TestImage(77, 3, 4)))
    /\ Len(options) > 0
    /\ options[1] = "-b"
    /\ idx = 1
    /\ image # readPPM(inFile).image
    /\ image[2][3] = FloorAverage(readPPM(inFile).image, 2, 3)

C9_Step ==
    (AtOption("-m") /\ Height(image) >= 1 /\ Width(image) >= 1) =>
        /\ mirrorColumns(Width(image)) \subseteq 0..(Width(image) - 1)
        /\ idx' = idx + 1
        /\ Len(image') = Len(image)
        /\ \A i \in 1..Len(image) :
              /\ Len(image'[i]) = Len(image[i])
              /\ \A j \in 1..Len(image[i]) :
                    image'[i][j] = image[i][Len(image[i]) + 1 - j]
        /\ mirror(mirror(image)) = image

(* C9: mirror of a buffer of width >= 1 reverses every row, keeps the row  *)
(* order, touches only columns 0..width-1, and undoes itself.              *)
C9_Mirror == [][C9_Step]_vars

C10_Step ==
    /\ Rectangular(image')
    /\ (AtShapeKeeping /\ ~IsEmpty(image)) =>
          (Height(image') = Height(image) /\ Width(image') = Width(image))
    /\ (Height(image') # Height(image) \/ Width(image') # Width(image)) =>
          (AtOption("-c") \/ pc = "start")

(* C10: the buffer is rectangular after every step; grayscale, invert,     *)
(* contrast, blur and mirror of a non-empty buffer keep its height and     *)
(* width, and only compress (and the decoding) changes them.               *)
C10_Rectangular == [][C10_Step]_vars

\* a 3x5 input after compress and then blur
C10_Witness ==
    /\ inFile = File(EncodeP6(TestImage(77, 3, 5)))
    /\ options = <<"-c", "-b">>
    /\ idx = 2
    /\ Height(image) = 1
    /\ Width(image) = 2

----------------------------------------------------------------------------
(* Properties of the inspection reader *)

(* C5: loadPPM returns true only for a valid P3 or P6 file, and then       *)
(* width, height, format tag and pixel grid are those of the file; for     *)
(* every other input it returns false.                                     *)
C5_LoadReportsFailure ==
    lpc = "done" =>
        /\ lFile \in InvalidLoadFiles => lResult = "false"
        /\ lResult = "true" =>
              \E img \in LoadImages :
                 /\ lFile \in {File(EncodeP6(img)), File(EncodeP3(img))}
                 /\ lImage = img
                 /\ lWidth = Width(img)
                 /\ lHeight = Height(img)
                 /\ lFormat \in {<<80, 51>>, <<80, 54>>}

====
